---- MODULE Spec2Model ----
(***************************************************************************)
(* Smart Recipe Finder (app2.py): ingredient normalisation, the offline    *)
(* ranking engine, the gateway-first Find handler and the taste profile    *)
(* (like / remove / persistence).                                          *)
(*                                                                         *)
(* A Python str is a sequence of one-character strings, so lower(),        *)
(* strip(), split(",") and the fuzzy partial ratio are computed character   *)
(* by character.  Recipe titles and the other descriptive fields are only  *)
(* ever compared for equality by the program and are TLA+ strings.         *)
(* A Match Score is kept in half units (ScoreUnit = one half), so          *)
(* exact*2 + partial + taste_bonus*0.5 is 4*exact + 2*partial + taste.     *)
(***************************************************************************)
EXTENDS Integers, Sequences, FiniteSets, TLC

VARIABLES
    recipes_df,      \* the corpus: a sequence of rows [title, ingredients]
    user_taste,      \* st.session_state.user_taste: [liked |-> <<entries>>]
    taste_file,      \* the contents of taste_memory.json
    search_results,  \* st.session_state.search_results
    search_mode,     \* st.session_state.search_mode
    last,            \* history: the last click and what its handler did
    save_failed,     \* history: the session's latest save_user_taste call raised
    fallback_used,   \* history: the un-enriched offline like has appended an entry
    pc,              \* position of the function-level specifications
    arg,             \* their input
    ret              \* their output

vars == <<recipes_df, user_taste, taste_file, search_results, search_mode,
          last, save_failed, fallback_used, pc, arg, ret>>

(***************************************************************************)
(* Bounds of the model.                                                    *)
(***************************************************************************)
MaxPad == 1        \* spaces put before / after a word when drawing inputs
MaxLiked == 2      \* likes are only taken while the liked list is this short
CorpusLen == 22    \* rows of the large corpora of the ranking specification

\* Python's None: a value different from every string of the model.
None == "<None>"

(***************************************************************************)
(* str.lower(), str.strip(), str.split(",")                                *)
(***************************************************************************)
UpperCase == <<"A","B","C","D","E","F","G","H","I","J","K","L","M",
               "N","O","P","Q","R","S","T","U","V","W","X","Y","Z">>
LowerCase == <<"a","b","c","d","e","f","g","h","i","j","k","l","m",
               "n","o","p","q","r","s","t","u","v","w","x","y","z">>
Whitespace == {" ", "\t", "\n"}

LowerOf == [c \in {UpperCase[i] : i \in 1..Len(UpperCase)} |->
                LowerCase[CHOOSE i \in 1..Len(UpperCase) : UpperCase[i] = c]]

LowerChar(c) == IF c \in DOMAIN LowerOf THEN LowerOf[c] ELSE c

Lower(s) == [i \in 1..Len(s) |-> LowerChar(s[i])]

RECURSIVE LStrip(_)
LStrip(s) ==
    IF s # <<>> /\ Head(s) \in Whitespace THEN LStrip(Tail(s)) ELSE s

RECURSIVE RStrip(_)
RStrip(s) ==
    IF s # <<>> /\ s[Len(s)] \in Whitespace
    THEN RStrip(SubSeq(s, 1, Len(s) - 1)) ELSE s

Strip(s) == RStrip(LStrip(s))

\* s.split(","): the pieces between commas; "" splits to [""].
RECURSIVE SplitFrom(_, _, _)
SplitFrom(s, i, piece) ==
    IF i > Len(s) THEN <<piece>>
    ELSE IF s[i] = "," THEN <<piece>> \o SplitFrom(s, i + 1, <<>>)
    ELSE SplitFrom(s, i + 1, Append(piece, s[i]))

Split(s) == SplitFrom(s, 1, <<>>)

(***************************************************************************)
(* Ingredient synonyms and normalize_ingredient                            *)
(***************************************************************************)
ingredient_synonyms ==
    (<<"b","h","i","n","d","i">> :> <<"o","k","r","a">>)   \* bhindi -> okra
 @@ (<<"g","h","e","e">> :> <<"c","l","a","r","i","f","i","e","d"," ","b","u","t","t","e","r">>)   \* ghee -> clarified butter
 @@ (<<"i","d","l","i"," ","r","i","c","e">> :> <<"p","a","r","b","o","i","l","e","d"," ","r","i","c","e">>)   \* idli rice -> parboiled rice
 @@ (<<"p","a","n","e","e","r">> :> <<"c","o","t","t","a","g","e"," ","c","h","e","e","s","e">>)   \* paneer -> cottage cheese
 @@ (<<"p","a","n","n","e","r">> :> <<"c","o","t","t","a","g","e"," ","c","h","e","e","s","e">>)   \* panner -> cottage cheese
 @@ (<<"m","a","l","a","i">> :> <<"c","r","e","a","m">>)   \* malai -> cream
 @@ (<<"c","u","r","d">> :> <<"y","o","g","u","r","t">>)   \* curd -> yogurt
 @@ (<<"d","a","h","i">> :> <<"y","o","g","u","r","t">>)   \* dahi -> yogurt
 @@ (<<"j","a","g","g","e","r","y">> :> <<"u","n","r","e","f","i","n","e","d"," ","c","a","n","e"," ","s","u","g","a","r">>)   \* jaggery -> unrefined cane sugar
 @@ (<<"i","m","l","i">> :> <<"t","a","m","a","r","i","n","d">>)   \* imli -> tamarind
 @@ (<<"t","i","l">> :> <<"s","e","s","a","m","e">>)   \* til -> sesame
 @@ (<<"r","a","j","m","a">> :> <<"k","i","d","n","e","y"," ","b","e","a","n","s">>)   \* rajma -> kidney beans
 @@ (<<"l","o","b","i","a">> :> <<"b","l","a","c","k"," ","e","y","e","d"," ","p","e","a","s">>)   \* lobia -> black eyed peas
 @@ (<<"c","h","o","l","e">> :> <<"c","h","i","c","k","p","e","a","s">>)   \* chole -> chickpeas
 @@ (<<"s","o","y","a"," ","c","h","u","n","k","s">> :> <<"t","e","x","t","u","r","e","d"," ","v","e","g","e","t","a","b","l","e"," ","p","r","o","t","e","i","n">>)   \* soya chunks -> textured vegetable protein
 @@ (<<"r","a","v","a">> :> <<"s","e","m","o","l","i","n","a">>)   \* rava -> semolina
 @@ (<<"s","u","j","i">> :> <<"s","e","m","o","l","i","n","a">>)   \* suji -> semolina
 @@ (<<"a","t","t","a">> :> <<"w","h","e","a","t"," ","f","l","o","u","r">>)   \* atta -> wheat flour
 @@ (<<"m","a","i","d","a">> :> <<"a","l","l","-","p","u","r","p","o","s","e"," ","f","l","o","u","r">>)   \* maida -> all-purpose flour
 @@ (<<"b","e","s","a","n">> :> <<"g","r","a","m"," ","f","l","o","u","r">>)   \* besan -> gram flour
 @@ (<<"s","a","b","u","d","a","n","a">> :> <<"t","a","p","i","o","c","a"," ","p","e","a","r","l","s">>)   \* sabudana -> tapioca pearls
 @@ (<<"p","o","h","a">> :> <<"f","l","a","t","t","e","n","e","d"," ","r","i","c","e">>)   \* poha -> flattened rice
 @@ (<<"h","a","l","d","i">> :> <<"t","u","r","m","e","r","i","c">>)   \* haldi -> turmeric
 @@ (<<"a","d","r","a","k">> :> <<"g","i","n","g","e","r">>)   \* adrak -> ginger
 @@ (<<"l","a","s","u","n">> :> <<"g","a","r","l","i","c">>)   \* lasun -> garlic
 @@ (<<"m","i","r","c","h","i">> :> <<"c","h","i","l","i">>)   \* mirchi -> chili
 @@ (<<"d","r","u","m","s","t","i","c","k">> :> <<"m","o","r","i","n","g","a">>)   \* drumstick -> moringa
 @@ (<<"t","o","f","u">> :> <<"s","o","y"," ","p","a","n","e","e","r">>)   \* tofu -> soy paneer
 @@ (<<"j","e","e","r","a">> :> <<"c","u","m","i","n">>)   \* jeera -> cumin
 @@ (<<"m","e","t","h","i">> :> <<"f","e","n","u","g","r","e","e","k">>)   \* methi -> fenugreek
 @@ (<<"p","u","l","a","o">> :> <<"f","r","i","e","d"," ","r","i","c","e">>)   \* pulao -> fried rice
 @@ (<<"k","a","c","h","u","m","b","e","r">> :> <<"s","a","l","a","d">>)   \* kachumber -> salad
 @@ (<<"d","a","l">> :> <<"l","e","n","t","i","l","s">>)   \* dal -> lentils
 @@ (<<"r","o","t","i">> :> <<"f","l","a","t","b","r","e","a","d">>)   \* roti -> flatbread

\* dict.get(key, default)
Get(d, k, default) == IF k \in DOMAIN d THEN d[k] ELSE default

\* (mutation) the lookup is done on the unstripped text, the strip comes last
NormalizeStripLast(ing) ==
    LET x == Lower(ing) IN Strip(Get(ingredient_synonyms, x, x))

normalize_ingredient(ing) ==
    LET x == Strip(Lower(ing)) IN Get(ingredient_synonyms, x, x)

(***************************************************************************)
(* rapidfuzz.fuzz.partial_ratio, as used at line 156: the best normalised  *)
(* Indel similarity of the shorter string against the windows of the       *)
(* longer one.  A similarity is kept as the pair <<2*lcs, len1+len2>>; the *)
(* score is 100 * 2*lcs / (len1+len2).                                     *)
(***************************************************************************)
\* the largest number in a non-empty set
MaxOf(S) == CHOOSE m \in S : \A x \in S : x <= m

\* one row of the longest-common-subsequence table from the row before it
\* (columns 0..Len(b) are positions 1..Len(b)+1): L[i][j] is the larger of
\* L[i-1][j] and of L[i-1][k-1] + 1 over the columns k <= j where the i-th
\* character is b[k]
LcsRow(c, b, prev) ==
    [j \in 1..(Len(b) + 1) |->
        MaxOf({prev[j]} \cup {prev[k] + 1 : k \in {k \in 1..(j - 1) : c = b[k]}})] \o <<>>

\* the table row by row, each row computed in full before the next is begun
RECURSIVE LcsRows(_, _, _, _)
LcsRows(a, b, i, prev) ==
    IF i > Len(a) THEN prev[Len(b) + 1]
    ELSE CHOOSE n \in {LcsRows(a, b, i + 1, row) : row \in {LcsRow(a[i], b, prev)}} : TRUE

\* the length of the longest common subsequence of a and b
Lcs(a, b) == LcsRows(a, b, 1, [j \in 1..(Len(b) + 1) |-> 0])

\* Indel.normalized_similarity(a, b) as <<numerator, denominator>>
IndelSim(a, b) == <<2 * Lcs(a, b), Len(a) + Len(b)>>

Chars(s) == {s[i] : i \in 1..Len(s)}

\* _partial_ratio_impl(s1, s2), Len(s1) <= Len(s2): the similarities of the
\* windows it compares (a window is skipped when its edge character does not
\* occur in s1)
PartialWindows(s1, s2) ==
    LET len1 == Len(s1)
        len2 == Len(s2)
    IN  IF len1 = 0 THEN {}      \* no character of s2 occurs in an empty s1
        ELSE
        {SubSeq(s2, 1, i) : i \in {k \in 1..(len1 - 1) : s2[k] \in Chars(s1)}}
        \cup {SubSeq(s2, i + 1, i + len1) :
                    i \in {k \in 0..(len2 - len1 - 1) : s2[k + len1] \in Chars(s1)}}
        \cup {SubSeq(s2, i + 1, len2) :
                    i \in {k \in (len2 - len1)..(len2 - 1) : s2[k + 1] \in Chars(s1)}}

PartialRatioImpl(s1, s2) == {IndelSim(s1, w) : w \in PartialWindows(s1, s2)}

\* the similarities partial_ratio(s1, s2) takes the maximum of; the score of
\* no window at all is 0, and two empty strings score 100
PartialSims(s1, s2) ==
    IF s1 = <<>> /\ s2 = <<>> THEN {<<1, 1>>}
    ELSE IF Len(s1) < Len(s2) THEN PartialRatioImpl(s1, s2)
    ELSE IF Len(s2) < Len(s1) THEN PartialRatioImpl(s2, s1)
    ELSE PartialRatioImpl(s1, s2) \cup PartialRatioImpl(s2, s1)

\* fuzz.partial_ratio(s1, s2) > pct
partial_ratio_above(s1, s2, pct) ==
    \E sim \in PartialSims(s1, s2) : 100 * sim[1] > pct * sim[2]

(***************************************************************************)
(* search_offline_recipes                                                  *)
(***************************************************************************)
FuzzThreshold == 75     \* fuzz.partial_ratio(...) > 75
TopN == 20              \* sorted(...)[:20]

InList(x, l) == \E i \in 1..Len(l) : l[i] = x

NormalizeAll(l) == [i \in 1..Len(l) |-> normalize_ingredient(l[i])]

\* [normalize_ingredient(i) for recipe in liked for i in recipe.get("ingredients", [])]
RECURSIVE LikedIngs(_)
LikedIngs(liked) ==
    IF liked = <<>> THEN <<>>
    ELSE NormalizeAll(Get(Head(liked), "ingredients", <<>>)) \o LikedIngs(Tail(liked))

Exact(ingredients, recipe_ings) ==
    Cardinality({k \in 1..Len(ingredients) : InList(ingredients[k], recipe_ings)})

Partial(ingredients, recipe_ings) ==
    Cardinality({k \in 1..Len(ingredients) :
        \E j \in 1..Len(recipe_ings) :
            partial_ratio_above(ingredients[k], recipe_ings[j], FuzzThreshold)})

TasteBonus(recipe_ings, liked_ings) ==
    Cardinality({j \in 1..Len(recipe_ings) : InList(recipe_ings[j], liked_ings)})

\* (mutation) the fuzzy term is left out of the sum
ScoreOfNoPartial(exact, partial, taste_bonus) == 4 * exact + taste_bonus

\* score = exact * 2 + partial + taste_bonus * 0.5, in half units
ScoreOf(exact, partial, taste_bonus) == 4 * exact + 2 * partial + taste_bonus

RowScore(ingredients, liked_ings, row) ==
    LET recipe_ings == NormalizeAll(row.ingredients)
    IN  ScoreOf(Exact(ingredients, recipe_ings),
                Partial(ingredients, recipe_ings),
                TasteBonus(recipe_ings, liked_ings))

\* the loop of lines 153-160: (idx, score) of the rows with score > 0, in
\* corpus order
ScoreRows(ingredients, liked_ings, df) ==
    SelectSeq([idx \in 1..Len(df) |-> <<idx, RowScore(ingredients, liked_ings, df[idx])>>],
              LAMBDA result : result[2] > 0)

\* (mutation) an unstable sort: entries of equal score come out in reverse order
PlaceReversingTies(results, k) ==
    Cardinality({j \in 1..Len(results) : results[j][2] > results[k][2]})
    + Cardinality({j \in (k + 1)..Len(results) : results[j][2] = results[k][2]}) + 1

\* where sorted(results, key=lambda x: x[1], reverse=True) puts results[k]:
\* after every entry of higher score and, the sort being stable, after the
\* entries of equal score that precede it in results
Place(results, k) ==
    Cardinality({j \in 1..Len(results) : results[j][2] > results[k][2]})
    + Cardinality({j \in 1..(k - 1) : results[j][2] = results[k][2]}) + 1

SortedDesc(results) ==
    [p \in 1..Len(results) |->
        results[CHOOSE k \in 1..Len(results) : Place(results, k) = p]]

Min(a, b) == IF a <= b THEN a ELSE b

\* the returned frame, one record per row: recipes_df.loc[idx] with its
\* "Match Score"; pd.DataFrame() has no rows
search_offline_recipes(user_input, taste, df) ==
    LET ingredients == NormalizeAll(Split(user_input))
        liked_ings == LikedIngs(taste.liked)
        results == ScoreRows(ingredients, liked_ings, df)
        sorted == SortedDesc(results)
        top == SubSeq(sorted, 1, Min(TopN, Len(sorted)))
    IN  IF results = <<>> THEN <<>>
        ELSE [k \in 1..Len(top) |->
                [idx |-> top[k][1],
                 title |-> df[top[k][1]].title,
                 ingredients |-> df[top[k][1]].ingredients,
                 score |-> top[k][2]]]

(***************************************************************************)
(* HTTP responses of the Spoonacular service.  A response either raises    *)
(* (transport error, or a body r.json() cannot parse) or carries a status  *)
(* code and a parsed body; a body and its result items are dicts, i.e.     *)
(* functions whose domain is the set of keys present.                      *)
(***************************************************************************)
DEFAULT_IMAGE == "https://via.placeholder.com/200x140.png?text=No+Image"

RECURSIVE JoinComma(_)
JoinComma(l) ==
    IF l = <<>> THEN ""
    ELSE IF Len(l) = 1 THEN l[1]
    ELSE l[1] \o ", " \o JoinComma(Tail(l))

\* ", ".join(x.get("cuisines", [])) or "Not specified"
Cuisines(x) ==
    LET joined == JoinComma(Get(x, "cuisines", <<>>))
    IN  IF joined = "" THEN "Not specified" ELSE joined

\* (mutation) the ingredient list of the service's record is kept
ApiRecipeKeepIngredients(x) ==
    [title |-> Get(x, "title", None),
     readyInMinutes |-> Get(x, "readyInMinutes", "N/A"),
     servings |-> Get(x, "servings", "N/A"),
     sourceUrl |-> Get(x, "sourceUrl", "#"),
     image |-> Get(x, "image", DEFAULT_IMAGE),
     cuisines |-> Cuisines(x),
     nutrition |-> "N/A",
     ingredients |-> Get(x, "ingredients", <<>>)]

\* the dict built at lines 89-98
ApiRecipe(x) ==
    [title |-> Get(x, "title", None),
     readyInMinutes |-> Get(x, "readyInMinutes", "N/A"),
     servings |-> Get(x, "servings", "N/A"),
     sourceUrl |-> Get(x, "sourceUrl", "#"),
     image |-> Get(x, "image", DEFAULT_IMAGE),
     cuisines |-> Cuisines(x),
     nutrition |-> "N/A",
     ingredients |-> <<>>]

HasResults(data) == "results" \in DOMAIN data /\ data["results"] # <<>>

get_recipes_from_api(resp) ==
    IF resp.raises THEN <<>>
    ELSE IF resp.status_code # 200 THEN <<>>
    ELSE IF ~HasResults(resp.json) THEN <<>>
    ELSE [i \in 1..Len(resp.json["results"]) |-> ApiRecipe(resp.json["results"][i])]

\* the dict returned at lines 131-140
EnrichedRecipe(x, recipe_name) ==
    [title |-> Get(x, "title", recipe_name),
     readyInMinutes |-> Get(x, "readyInMinutes", "N/A"),
     servings |-> Get(x, "servings", "N/A"),
     cuisines |-> Cuisines(x),
     nutrition |-> "N/A",
     image |-> Get(x, "image", DEFAULT_IMAGE),
     sourceUrl |-> Get(x, "sourceUrl", "#"),
     ingredients |-> <<>>]

\* the result is <<>> for None and <<dict>> for a dict
enrich_offline_recipe(recipe_name, resp) ==
    IF resp.raises THEN <<>>
    ELSE IF resp.status_code # 200 THEN <<>>
    ELSE IF ~HasResults(resp.json) THEN <<>>
    ELSE <<EnrichedRecipe(resp.json["results"][1], recipe_name)>>

(***************************************************************************)
(* The offline result cards                                                *)
(***************************************************************************)
\* title.replace(" ", with): titles are whole strings here, so the replaced
\* text is tabulated for the titles that hold a space
ReplaceSpaces(title, with) ==
    CASE title = "Chole Masala" -> "Chole" \o with \o "Masala"
      [] title = "Paneer Tikka" -> "Paneer" \o with \o "Tikka"
      [] title = "Plain Rice" -> "Plain" \o with \o "Rice"
      [] OTHER -> title

google_search_link(recipe_name) ==
    "https://www.google.com/search?q=" \o ReplaceSpaces(recipe_name, "+") \o "+recipe"

UnsplashImage(title) ==
    "https://source.unsplash.com/200x140/?food," \o ReplaceSpaces(title, "%20")

\* the dict appended at lines 278-287 when enrichment gave nothing
FallbackRecipe(row) ==
    [title |-> row.title,
     ingredients |-> row.ingredients,
     readyInMinutes |-> "N/A",
     servings |-> "N/A",
     cuisines |-> "Not specified",
     nutrition |-> "N/A",
     image |-> UnsplashImage(row.title),
     sourceUrl |-> google_search_link(row.title)]

(***************************************************************************)
(* Taste memory: taste_memory.json                                         *)
(***************************************************************************)
Absent == [exists |-> FALSE]
Truncated == [exists |-> TRUE, parses |-> FALSE]   \* a write that died half way

\* json.dump / json.load: None is written as null, everything else the
\* profile holds (strings and lists of strings) is written as itself
JsonValue(v) == IF v = None THEN "null" ELSE v
PyValue(v) == IF v = "null" THEN None ELSE v

JsonDump(data) ==
    [liked |-> [i \in 1..Len(data.liked) |->
        [k \in DOMAIN data.liked[i] |->
            IF k = "title" THEN JsonValue(data.liked[i][k]) ELSE data.liked[i][k]]]]

JsonLoad(text) ==
    [liked |-> [i \in 1..Len(text.liked) |->
        [k \in DOMAIN text.liked[i] |->
            IF k = "title" THEN PyValue(text.liked[i][k]) ELSE text.liked[i][k]]]]

Loadable(file) == IF file.exists THEN file.parses ELSE TRUE

load_user_taste(file) ==
    IF file.exists THEN JsonLoad(file.text) ELSE [liked |-> <<>>]

\* save_user_taste(data): the file after a write that succeeds
save_user_taste(data) == [exists |-> TRUE, parses |-> TRUE, text |-> JsonDump(data)]

(***************************************************************************)
(* The click handlers.  Each gives the session state and the file the      *)
(* handler leaves; w is the outcome of its save_user_taste call.           *)
(***************************************************************************)
WriteOutcomes == {"ok", "raises"}

\* (mutation) the handler does not call save_user_taste
WriteSkipped(data, file, w) == file

\* the file after save_user_taste(data) is called with outcome w
Write(data, file, w) ==
    IF w = "ok" THEN save_user_taste(data)
    ELSE Truncated      \* open(TASTE_FILE, "w") emptied the file, json.dump raised

HasTitle(liked, title) == \E i \in 1..Len(liked) : liked[i].title = title

Stored(taste, file, w) ==
    [taste |-> taste, file |-> Write(taste, file, w), saved |-> TRUE, failed |-> w # "ok"]

Untouched(taste, file) ==
    [taste |-> taste, file |-> file, saved |-> FALSE, failed |-> FALSE]

\* lines 249-253
ApiLike(taste, file, r, w) ==
    IF ~HasTitle(taste.liked, r.title)
    THEN Stored([taste EXCEPT !.liked = Append(@, r)], file, w)
    ELSE Untouched(taste, file)

\* lines 272-289; enriched is what enrich_offline_recipe(row["title"]) returned
OfflineLike(taste, file, row, enriched, w) ==
    IF ~HasTitle(taste.liked, row.title)
    THEN IF enriched # <<>>
         THEN Stored([taste EXCEPT !.liked = Append(@, enriched[1])], file, w)
         ELSE Stored([taste EXCEPT !.liked = Append(@, FallbackRecipe(row))], file, w)
    ELSE Untouched(taste, file)

\* (mutation) only the first entry with the title is dropped
RECURSIVE FilterFirstOnly(_, _)
FilterFirstOnly(liked, title) ==
    IF liked = <<>> THEN <<>>
    ELSE IF Head(liked).title # title
         THEN <<Head(liked)>> \o FilterFirstOnly(Tail(liked), title)
         ELSE Tail(liked)

\* [x for x in liked if x["title"] != title]
RECURSIVE FilterOut(_, _)
FilterOut(liked, title) ==
    IF liked = <<>> THEN <<>>
    ELSE (IF Head(liked).title # title THEN <<Head(liked)>> ELSE <<>>)
         \o FilterOut(Tail(liked), title)

\* lines 320-325
RemoveLiked(taste, file, r, w) ==
    Stored([taste EXCEPT !.liked = FilterOut(@, r.title)], file, w)

\* (mutation) the offline engine is run before the gateway's answer is looked at
FindAlwaysOffline(ingredients, api_results, taste, df) ==
    IF ingredients = <<>>
    THEN [calls |-> <<>>, stored |-> FALSE, api_results |-> <<>>, offline |-> <<>>]
    ELSE LET offline == search_offline_recipes(ingredients, taste, df)
         IN  [calls |-> <<"offline", "api">>, stored |-> TRUE,
              api_results |-> api_results, offline |-> offline,
              results |-> IF api_results # <<>> THEN api_results ELSE offline,
              mode |-> IF api_results # <<>> THEN "api" ELSE "offline"]

\* lines 219-231: the calls made, in order, and what is stored in the session;
\* api_results is what get_recipes_from_api(ingredients, diet) returned
FindRecipes(ingredients, api_results, taste, df) ==
    IF ingredients = <<>>                     \* "if ingredients:" is false
    THEN [calls |-> <<>>, stored |-> FALSE, api_results |-> <<>>, offline |-> <<>>]
    ELSE IF api_results # <<>>
         THEN [calls |-> <<"api">>, stored |-> TRUE, api_results |-> api_results,
               offline |-> <<>>, results |-> api_results, mode |-> "api"]
         ELSE LET offline == search_offline_recipes(ingredients, taste, df)
              IN  [calls |-> <<"api", "offline">>, stored |-> TRUE,
                   api_results |-> api_results, offline |-> offline,
                   results |-> offline, mode |-> "offline"]

\* the key of a like button: f"api_{title}", f"off_{title}"
TitleText(title) == IF title = None THEN "None" ELSE title
ApiKey(title) == "api_" \o TitleText(title)
OffKey(title) == "off_" \o TitleText(title)

(***************************************************************************)
(* Inputs: ingredient words, corpora, queries, service answers             *)
(***************************************************************************)
w_chole == <<"c","h","o","l","e">>   \* "chole"
w_onion == <<"o","n","i","o","n">>   \* "onion"
w_tomato == <<"t","o","m","a","t","o">>   \* "tomato"
w_paneer == <<"P","a","n","e","e","r"," ">>   \* "Paneer "
w_rice == <<"r","i","c","e">>   \* "rice"
w_imli == <<"I","m","l","i">>   \* "Imli"
w_onions == <<"o","n","i","o","n","s">>   \* "onions"
w_salt == <<"s","a","l","t">>   \* "salt"

q_empty == <<>>   \* ""
q_space == <<" ">>   \* " "
q_chickpeas == <<"c","h","i","c","k","p","e","a","s">>   \* "chickpeas"
q_onion_rice == <<"O","n","i","o","n",","," ","r","i","c","e">>   \* "Onion, rice"
q_paneer == <<"p","a","n","e","e","r">>   \* "paneer"
q_onions == <<"o","n","i","o","n","s">>   \* "onions"
q_rice_rice == <<"r","i","c","e",",","r","i","c","e">>   \* "rice,rice"
q_comma == <<",">>   \* ","

\* the corpus of the application specification
SmallCorpus ==
    << [title |-> "Chole Masala", ingredients |-> <<w_chole, w_onion, w_tomato>>],
       [title |-> "Paneer Tikka", ingredients |-> <<w_paneer, w_onion>>],
       [title |-> "Water", ingredients |-> <<>>] >>

Queries == {q_empty, q_space, q_chickpeas, q_onions}

\* result items of the service (keys the program does not read are ignored)
ItemDal ==
    [title |-> "Dal Fry", readyInMinutes |-> "30", servings |-> "4",
     sourceUrl |-> "https://spoonacular.com/dal-fry", image |-> "dal-fry.jpg",
     cuisines |-> <<"Indian", "Asian">>, ingredients |-> <<w_onion>>]
ItemBare == [image |-> "bare.jpg"]                   \* no title key

Raises == [raises |-> TRUE]
Http(status, body) == [raises |-> FALSE, status_code |-> status, json |-> body]

FailedResponses ==
    {Raises, Http(500, [message |-> "error"]), Http(200, [message |-> "no results key"]),
     Http(200, [results |-> <<>>])}

SearchResponses == FailedResponses \cup {Http(200, [results |-> <<ItemDal, ItemBare>>])}

EnrichResponses ==
    FailedResponses \cup {Http(200, [results |-> <<ItemDal>>]),
                          Http(200, [results |-> <<ItemDal, ItemBare>>])}

\* what the two service calls can return
GatewayResults == {get_recipes_from_api(resp) : resp \in SearchResponses}
EnrichResults(recipe_name) ==
    {enrich_offline_recipe(recipe_name, resp) : resp \in EnrichResponses}

(***************************************************************************)
(* The application: one session after another of the page                  *)
(***************************************************************************)
Idle ==
    /\ taste_file = Absent
    /\ user_taste = load_user_taste(Absent)
    /\ search_results = None
    /\ search_mode = None
    /\ last = [op |-> "start"]
    /\ save_failed = FALSE
    /\ fallback_used = FALSE

Init ==
    /\ Idle
    /\ recipes_df = SmallCorpus
    /\ pc = "app"
    /\ arg = None
    /\ ret = None

\* the "Find Recipes" button with the text input holding q
Find ==
    \E q \in Queries, api_results \in GatewayResults :
        \E out \in {FindRecipes(q, api_results, user_taste, recipes_df)} :
            /\ pc = "app"
            /\ search_results' = IF out.stored THEN out.results ELSE search_results
            /\ search_mode' = IF out.stored THEN out.mode ELSE search_mode
            /\ last' = [op |-> "find", query |-> q, calls |-> out.calls,
                        api_results |-> out.api_results, offline |-> out.offline]
            /\ UNCHANGED <<recipes_df, user_taste, taste_file, save_failed,
                           fallback_used, pc, arg, ret>>

\* a "Like" button of the gateway's result cards
LikeApi ==
    \E i \in 1..(IF search_mode = "api" THEN Len(search_results) ELSE 0),
       w \in WriteOutcomes :
        \E r \in {search_results[i]} :
        \E out \in {ApiLike(user_taste, taste_file, r, w)} :
            /\ pc = "app"
            /\ Len(out.taste.liked) <= MaxLiked
            /\ user_taste' = out.taste
            /\ taste_file' = out.file
            /\ save_failed' = IF out.saved THEN out.failed ELSE save_failed
            /\ last' = [op |-> "like", key |-> ApiKey(r.title), saved |-> out.saved]
            /\ UNCHANGED <<recipes_df, search_results, search_mode,
                           fallback_used, pc, arg, ret>>

\* a "Like" button of the offline result cards
LikeOffline ==
    \E i \in 1..(IF search_mode = "offline" THEN Len(search_results) ELSE 0),
       w \in WriteOutcomes :
        \E enriched \in EnrichResults(search_results[i].title) :
        \E row \in {search_results[i]} :
        \E out \in {OfflineLike(user_taste, taste_file, row, enriched, w)} :
                /\ pc = "app"
                /\ Len(out.taste.liked) <= MaxLiked
                    /\ user_taste' = out.taste
                /\ taste_file' = out.file
                /\ save_failed' = IF out.saved THEN out.failed ELSE save_failed
                /\ fallback_used' = (fallback_used \/ (out.saved /\ enriched = <<>>))
                /\ last' = [op |-> "like", key |-> OffKey(row.title), saved |-> out.saved]
                /\ UNCHANGED <<recipes_df, search_results, search_mode, pc, arg, ret>>

\* a "Remove" button of the liked cards
Remove ==
    \E i \in 1..Len(user_taste.liked), w \in WriteOutcomes :
        \E r \in {user_taste.liked[i]} :
        \E out \in {RemoveLiked(user_taste, taste_file, r, w)} :
            /\ pc = "app"
            /\ user_taste' = out.taste
            /\ taste_file' = out.file
            /\ save_failed' = IF out.saved THEN out.failed ELSE save_failed
            /\ last' = [op |-> "remove", title |-> r.title, saved |-> out.saved]
            /\ UNCHANGED <<recipes_df, search_results, search_mode,
                           fallback_used, pc, arg, ret>>

\* a new session: lines 64-65 and 215-217 run on an empty session state
NewSession ==
    /\ pc = "app"
    /\ Loadable(taste_file)
    /\ user_taste' = load_user_taste(taste_file)
    /\ search_results' = None
    /\ search_mode' = None
    /\ last' = [op |-> "start"]
    /\ save_failed' = FALSE
    /\ UNCHANGED <<recipes_df, taste_file, fallback_used, pc, arg, ret>>

Next == Find \/ LikeApi \/ LikeOffline \/ Remove \/ NewSession

Spec == Init /\ [][Next]_vars

(***************************************************************************)
(* search_offline_recipes on its own: the inputs are drawn, then ranked    *)
(***************************************************************************)
\* the ingredient lists the large corpora cycle through
RankPool ==
    << <<w_chole, w_onion, w_tomato>>, <<w_paneer, w_onion>>, <<w_rice>>,
       <<w_onions, w_imli>>, <<w_tomato, w_rice, w_onion>>, <<w_salt, w_onions>> >>

\* CorpusLen rows; row blank has no ingredients, row i takes the list
\* i * step + blank of the pool
LargeCorpus(step, blank) ==
    [i \in 1..CorpusLen |->
        [title |-> "recipe " \o ToString(i),
         ingredients |-> IF i = blank THEN <<>>
                         ELSE RankPool[((i * step + blank) % Len(RankPool)) + 1]]]

\* the corpus of the end-to-end example
CholeCorpus ==
    << [title |-> "Chole Masala", ingredients |-> <<w_chole, w_onion, w_tomato>>] >>

RankCorpora ==
    {<<>>, CholeCorpus} \cup {LargeCorpus(step, blank) : step \in {1, 5}, blank \in {2, 9}}

RankQueries ==
    {q_empty, q_space, q_comma, q_chickpeas, q_onion_rice, q_paneer, q_onions, q_rice_rice}

RankTastes ==
    {[liked |-> <<>>],
     [liked |-> <<ApiRecipe(ItemDal), [title |-> "No list"]>>],
     [liked |-> <<FallbackRecipe([title |-> "Imli Rice", ingredients |-> <<w_imli, w_rice>>]),
                  FallbackRecipe(CholeCorpus[1])>>]}

InitRank ==
    /\ Idle
    /\ recipes_df \in RankCorpora
    /\ pc = "rank"
    /\ arg \in [query : RankQueries, taste : RankTastes]
    /\ ret = None

Rank ==
    /\ pc = "rank"
    /\ ret' = search_offline_recipes(arg.query, arg.taste, recipes_df)
    /\ pc' = "ranked"
    /\ UNCHANGED <<recipes_df, user_taste, taste_file, search_results, search_mode,
                   last, save_failed, fallback_used, arg>>

NextRank == Rank

SpecRank == InitRank /\ [][NextRank]_vars

(***************************************************************************)
(* normalize_ingredient on its own: applied once, then to its own result   *)
(***************************************************************************)
UpperChar(c) ==
    IF \E i \in 1..Len(LowerCase) : LowerCase[i] = c
    THEN UpperCase[CHOOSE i \in 1..Len(LowerCase) : LowerCase[i] = c]
    ELSE c

Cased(word, case) ==
    CASE case = "lower" -> word
      [] case = "upper" -> [i \in 1..Len(word) |-> UpperChar(word[i])]
      [] case = "title" -> [i \in 1..Len(word) |->
                               IF i = 1 THEN UpperChar(word[i]) ELSE word[i]]

Spaces(n) == [i \in 1..n |-> " "]

SynonymKeys == DOMAIN ingredient_synonyms
SynonymValues == {ingredient_synonyms[k] : k \in SynonymKeys}

\* every key and every canonical value of the table, and words outside it
NormWords == SynonymKeys \cup SynonymValues \cup {w_onion, w_salt, <<>>}

NormInputs ==
    {Spaces(a) \o Cased(word, case) \o Spaces(b) :
        word \in NormWords, case \in {"lower", "upper", "title"},
        a \in 0..MaxPad, b \in 0..MaxPad}

InitNorm ==
    /\ Idle
    /\ recipes_df = <<>>
    /\ pc = "norm"
    /\ arg \in NormInputs
    /\ ret = <<>>

NormalizeOnce ==
    /\ pc = "norm"
    /\ ret' = <<normalize_ingredient(arg)>>
    /\ pc' = "norm_once"
    /\ UNCHANGED <<recipes_df, user_taste, taste_file, search_results, search_mode,
                   last, save_failed, fallback_used, arg>>

NormalizeAgain ==
    /\ pc = "norm_once"
    /\ ret' = Append(ret, normalize_ingredient(ret[1]))
    /\ pc' = "norm_twice"
    /\ UNCHANGED <<recipes_df, user_taste, taste_file, search_results, search_mode,
                   last, save_failed, fallback_used, arg>>

NextNorm == NormalizeOnce \/ NormalizeAgain

SpecNorm == InitNorm /\ [][NextNorm]_vars

(***************************************************************************)
(* Properties                                                              *)
(***************************************************************************)
Liked == user_taste.liked

Blank(query) == Strip(query) = <<>>

QueryIngredients(query) == NormalizeAll(Split(query))

Count(seq, x) == Cardinality({i \in 1..Len(seq) : seq[i] = x})

\* C1: the frame returned by search_offline_recipes is exactly the first 20
\* of the rows with score > 0 in descending score order, rows of equal score
\* in corpus order: at most 20 rows, each a scoring row with its own score,
\* strictly ordered by (score descending, corpus position ascending), and
\* every scoring row left out comes after every returned row in that order.
C1_Top20ByScoreStable ==
    pc = "ranked" =>
        LET q == QueryIngredients(arg.query)
            liked_ings == LikedIngs(arg.taste.liked)
            score == [i \in 1..Len(recipes_df) |-> RowScore(q, liked_ings, recipes_df[i])]
            scoring == {i \in 1..Len(recipes_df) : score[i] > 0}
            returned == {ret[k].idx : k \in 1..Len(ret)}
        IN  /\ Len(ret) <= TopN
            /\ Len(ret) = Min(TopN, Cardinality(scoring))
            /\ \A k \in 1..Len(ret) :
                    /\ ret[k].idx \in scoring
                    /\ ret[k].score = score[ret[k].idx]
                    /\ ret[k].title = recipes_df[ret[k].idx].title
                    /\ ret[k].ingredients = recipes_df[ret[k].idx].ingredients
            /\ \A k \in 1..(Len(ret) - 1) :
                    \/ ret[k].score > ret[k + 1].score
                    \/ ret[k].score = ret[k + 1].score /\ ret[k].idx < ret[k + 1].idx
            /\ \A i \in scoring \ returned : \A k \in 1..Len(ret) :
                    \/ score[i] < ret[k].score
                    \/ score[i] = ret[k].score /\ i > ret[k].idx

\* C1 witness: a ranking cut at 20 rows that leaves a scoring row out, holds
\* rows of equal score and rows of different score, under a taste profile
C1_Witness ==
    /\ pc = "ranked"
    /\ Len(ret) = TopN
    /\ Len(recipes_df) > TopN
    /\ arg.taste.liked # <<>>
    /\ \E i \in 1..Len(recipes_df) :
            /\ recipes_df[i].ingredients # <<>>
            /\ \A k \in 1..Len(ret) : ret[k].idx # i
            /\ RowScore(QueryIngredients(arg.query), LikedIngs(arg.taste.liked),
                        recipes_df[i]) > 0
    /\ \E k \in 1..(TopN - 1) : ret[k].score = ret[k + 1].score
    /\ ret[1].score > ret[TopN].score

\* C2: no two entries of the liked list have the same title.
C2_LikedTitlesUnique ==
    \A i, j \in 1..Len(Liked) : i # j => Liked[i].title # Liked[j].title

\* C3: a like button pressed a second time, right after it was pressed,
\* leaves the liked list unchanged.
C3_SecondLikeChangesNothing ==
    [][(last.op = "like" /\ last'.op = "like" /\ last'.key = last.key)
            => user_taste'.liked = user_taste.liked]_vars

\* C4: whenever the session's saves have succeeded, the profile read back
\* from taste_memory.json is the in-memory profile.
C4_PersistedEqualsMemory ==
    ~save_failed =>
        IF Loadable(taste_file) THEN load_user_taste(taste_file) = user_taste ELSE FALSE

\* C4 witness: a like that appended and saved, after an earlier entry
C4_Witness ==
    /\ pc = "app"
    /\ last.op = "like"
    /\ last.saved
    /\ ~save_failed
    /\ Len(Liked) >= 2
    /\ taste_file.exists

AppTitles ==
    {recipes_df[i].title : i \in 1..Len(recipes_df)} \cup {"Dal Fry", "Not liked", None}

\* C5: a Remove step leaves exactly the entries whose title differs from the
\* removed one, in their order; and filtering out a title the list does not
\* hold gives the list itself.
C5_RemoveKeepsOthers ==
    /\ [][last'.op = "remove"
            => user_taste'.liked = SelectSeq(user_taste.liked,
                                             LAMBDA x : x.title # last'.title)]_vars
    /\ [](\A title \in AppTitles :
            ~HasTitle(Liked, title) => FilterOut(Liked, title) = Liked)

\* C5 witness: a removal that left another entry in the list
C5_Witness ==
    /\ pc = "app"
    /\ last.op = "remove"
    /\ Liked # <<>>
    /\ ~HasTitle(Liked, last.title)

\* C6: a Find with a non-blank query calls the gateway first and once, runs
\* the offline engine exactly when the gateway returned the empty list, and
\* shows the gateway's list in mode "api" when it is not empty.
C6_GatewayOnceThenFallback ==
    (last.op = "find" /\ ~Blank(last.query)) =>
        /\ last.calls # <<>>
        /\ last.calls[1] = "api"
        /\ Count(last.calls, "api") = 1
        /\ Count(last.calls, "offline") = (IF last.api_results = <<>> THEN 1 ELSE 0)
        /\ last.api_results # <<>> =>
                search_mode = "api" /\ search_results = last.api_results
        /\ last.api_results = <<>> =>
                search_mode = "offline" /\ search_results = last.offline

\* C6 witnesses: a fallback that found recipes
C6_Witness ==
    /\ last.op = "find"
    /\ ~Blank(last.query)
    /\ last.calls = <<"api", "offline">>
    /\ search_mode = "offline"
    /\ search_results # <<>>

\* C7: a Find with a blank query (empty or whitespace only) makes no gateway
\* call and no ranking call, and returns no recipe.
C7_BlankQueryRejected ==
    (last.op = "find" /\ Blank(last.query)) =>
        /\ last.calls = <<>>
        /\ last.api_results = <<>>
        /\ last.offline = <<>>

\* a single query token that equals exactly one normalised ingredient of the row
OneTokenOneMatch(query, row) ==
    /\ Len(QueryIngredients(query)) = 1
    /\ Count(NormalizeAll(row.ingredients), QueryIngredients(query)[1]) = 1

\* C8 as stated: with an empty taste profile such a row scores 2 (4 half
\* units), and the Chole Masala example gives one result of score 2.
C8_ExactMatchScoresTwo ==
    (pc = "ranked" /\ arg.taste.liked = <<>>) =>
        /\ \A k \in 1..Len(ret) :
                OneTokenOneMatch(arg.query, recipes_df[ret[k].idx]) => ret[k].score = 4
        /\ (recipes_df = CholeCorpus /\ arg.query = q_chickpeas) =>
                Len(ret) = 1 /\ ret[1].score = 4

\* C8 amended: with an empty taste profile such a row has exact = 1 and
\* partial = 1 (equal strings have partial ratio 100) and scores 3 (6 half
\* units); the Chole Masala example gives one result of score 3.
C8_ExactMatchScoresThree ==
    (pc = "ranked" /\ arg.taste.liked = <<>>) =>
        /\ \A k \in 1..Len(ret) :
                OneTokenOneMatch(arg.query, recipes_df[ret[k].idx]) =>
                    LET q == QueryIngredients(arg.query)
                        recipe_ings == NormalizeAll(recipes_df[ret[k].idx].ingredients)
                    IN  /\ Exact(q, recipe_ings) = 1
                        /\ Partial(q, recipe_ings) = 1
                        /\ ret[k].score = 6
        /\ (recipes_df = CholeCorpus /\ arg.query = q_chickpeas) =>
                Len(ret) = 1 /\ ret[1].score = 6

\* C8 witness: the end-to-end example has been ranked
C8_Witness ==
    /\ pc = "ranked"
    /\ arg.taste.liked = <<>>
    /\ recipes_df = CholeCorpus
    /\ arg.query = q_chickpeas
    /\ Len(ret) = 1
    /\ OneTokenOneMatch(arg.query, recipes_df[ret[1].idx])

IsLowerTrimmed(s) ==
    /\ \A i \in 1..Len(s) : s[i] \notin DOMAIN LowerOf
    /\ s # <<>> => (s[1] \notin Whitespace /\ s[Len(s)] \notin Whitespace)

\* C9: normalising a normalised ingredient changes nothing, the result is
\* lowercase and trimmed, and no canonical value of the synonym table is a
\* key mapped to another string.
C9_NormalizeIdempotent ==
    /\ pc = "norm_twice" => (ret[2] = ret[1] /\ IsLowerTrimmed(ret[1]))
    /\ \A k \in SynonymKeys :
            ingredient_synonyms[k] \in SynonymKeys =>
                ingredient_synonyms[ingredient_synonyms[k]] = ingredient_synonyms[k]

\* C9 witness: a padded, capitalised synonym was replaced by its canonical form
C9_Witness ==
    /\ pc = "norm_twice"
    /\ arg # Strip(Lower(arg))
    /\ Strip(Lower(arg)) \in SynonymKeys
    /\ ret[1] = ingredient_synonyms[Strip(Lower(arg))]

\* C10: a liked entry holds ingredients only if the un-enriched offline like
\* appended it; while that like has never appended, every entry's ingredient
\* list is empty and every offline ranking equals the ranking under an
\* empty taste profile.
C10_OnlyFallbackLikesBias ==
    /\ \A i \in 1..Len(Liked) :
            Liked[i].ingredients # <<>> =>
                /\ fallback_used
                /\ \E k \in 1..Len(recipes_df) : Liked[i] = FallbackRecipe(recipes_df[k])
    /\ (pc = "app" /\ ~fallback_used) =>
            /\ LikedIngs(Liked) = <<>>
            /\ \A q \in Queries :
                    search_offline_recipes(q, user_taste, recipes_df)
                        = search_offline_recipes(q, [liked |-> <<>>], recipes_df)

\* C10 witness: an enriched offline like has just been stored after a
\* gateway like
C10_Witness ==
    /\ pc = "app"
    /\ ~fallback_used
    /\ last.op = "like"
    /\ last.key = OffKey("Chole Masala")
    /\ last.saved
    /\ Len(Liked) >= 2
    /\ \E i \in 1..Len(Liked) : Liked[i].title = None

====
